---- MODULE Spec2Model ----
(***************************************************************************)
(* Model of Sources/TreeSitterSwiftGrammar/include/tree_sitter_swift.h.    *)
(*                                                                         *)
(* The header is a sequence of 18 lines.  A build translates two           *)
(* translation units that include it (1: a caller of tree_sitter_swift,    *)
(* 2: the unit that defines it), each in C or in C++: the preprocessor     *)
(* walks the header line by line for every inclusion, the compiler turns   *)
(* the emitted declarations into a symbol, and the linker resolves the     *)
(* caller's reference against the definition.  A program that linked is    *)
(* then loaded and its threads call tree_sitter_swift().                   *)
(*                                                                         *)
(* The body of tree_sitter_swift() is not part of the header; the run-time *)
(* part of the model (from LoadStatic on) follows the contract written in  *)
(* the specification of the header.                                        *)
(***************************************************************************)
EXTENDS Naturals, Sequences, FiniteSets

\* ---------------------------------------------------------------- bounds
MaxIncludes == 3   \* inclusions of the header per translation unit
NumThreads  == 3   \* threads calling tree_sitter_swift()
MaxCalls    == 2   \* calls per thread
NumFields   == 2   \* fields written by a lazy initialisation

Langs   == {"C", "CPP"}
TUs     == {1, 2}
Threads == 1..NumThreads

\* ------------------------------------------------------ the header's text
GuardMacro == "TREE_SITTER_SWIFT_H_"
CppMacro   == "__cplusplus"
FnName     == "tree_sitter_swift"

TokOpen    == "extern_C_open"            \* extern "C" {
TokTypedef == "typedef_TSLanguage"       \* typedef struct TSLanguage TSLanguage;
TokDecl    == "decl_tree_sitter_swift"   \* const TSLanguage *tree_sitter_swift(void);
TokClose   == "close_brace"              \* }

Other(k)   == [kind |-> k, arg |-> ""]

\* Variants of single lines, as a slip in the header would leave them.
Line4NoDefine   == Other("blank")                          \* the #define left out
Line7NoOpen     == Other("blank")                          \* extern "C" { left out
Line14Inverted  == [kind |-> "ifndef", arg |-> CppMacro]   \* #ifndef for #ifdef

Line3  == [kind |-> "ifndef", arg |-> GuardMacro]
Line4  == [kind |-> "define", arg |-> GuardMacro]
Line6  == [kind |-> "ifdef",  arg |-> CppMacro]
Line7  == [kind |-> "text",   arg |-> TokOpen]
Line8  == [kind |-> "endif",  arg |-> ""]
Line10 == [kind |-> "text",   arg |-> TokTypedef]
Line12 == [kind |-> "text",   arg |-> TokDecl]
Line14 == [kind |-> "ifdef",  arg |-> CppMacro]
Line15 == [kind |-> "text",   arg |-> TokClose]
Line16 == [kind |-> "endif",  arg |-> ""]
Line18 == [kind |-> "endif",  arg |-> ""]

Header ==
  << Other("comment"), Other("blank"), Line3, Line4, Other("blank"),
     Line6, Line7, Line8, Other("blank"),
     Line10, Other("blank"), Line12, Other("blank"),
     Line14, Line15, Line16, Other("blank"), Line18 >>

\* ------------------------------------------------------------------ state
VARIABLES
  lang,      \* lang[k]: the language translation unit k is compiled as
  tu,        \* the unit being translated (1, 2), 3 once both are
  macros,    \* macros defined in the unit being translated
  incl,      \* inclusions of the header begun in this unit
  depth,     \* 0 outside the header, 1 included directly, 2 through another header
  pc,        \* line of the header the preprocessor is at (0 outside it)
  conds,     \* open conditional groups, innermost last: TRUE = taken
  out,       \* out[i]: the declarations inclusion i contributed to the unit
  diag,      \* preprocessing errors of the unit being translated
  objs,      \* objs[k]: the object file of unit k once compiled
  linked,    \* "pending", "ok" or "failed"
  mode,      \* "unloaded", "static" (built at load time) or "lazy" (at first call)
  once,      \* the structure's initialisation flag: "uninit", "busy", "done"
  filled,    \* fields of the structure written so far
  addr,      \* address of the structure's storage
  live,      \* the storage has not been released
  initRuns,  \* initialisations completed
  held,      \* resources held on behalf of callers
  tpc,       \* tpc[t]: where thread t is in its call
  ret,       \* ret[t]: the reference thread t's last call returned
  calls,     \* calls[t]: calls thread t has completed
  returned   \* every reference returned so far

buildVars == <<lang, tu, macros, incl, depth, pc, conds, out, diag, objs, linked>>
runVars   == <<mode, once, filled, addr, live, initRuns, held, tpc, ret, calls, returned>>
vars      == <<lang, tu, macros, incl, depth, pc, conds, out, diag, objs, linked,
               mode, once, filled, addr, live, initRuns, held, tpc, ret, calls, returned>>

NULL         == 0
LanguageAddr == 1
NoObj        == [errors |-> {}, linkage |-> "none", symbol |-> <<>>]

PredefinedMacros(l) == IF l = "CPP" THEN {CppMacro} ELSE {}

Init ==
  /\ lang \in [TUs -> Langs]
  /\ tu = 1
  /\ macros = PredefinedMacros(lang[1])
  /\ incl = 0
  /\ depth = 0
  /\ pc = 0
  /\ conds = <<>>
  /\ out = <<>>
  /\ diag = {}
  /\ objs = [k \in TUs |-> NoObj]
  /\ linked = "pending"
  /\ mode = "unloaded"
  /\ once = "uninit"
  /\ filled = 0
  /\ addr = LanguageAddr
  /\ live = TRUE
  /\ initRuns = 0
  /\ held = 0
  /\ tpc = [t \in Threads |-> "idle"]
  /\ ret = [t \in Threads |-> NULL]
  /\ calls = [t \in Threads |-> 0]
  /\ returned = {}

\* ----------------------------------------------------------- preprocessor
Active == \A i \in 1..Len(conds) : conds[i]

AtLine(k) == /\ tu \in TUs
             /\ pc \in 1..Len(Header)
             /\ Header[pc].kind = k

Advance == pc' = pc + 1

\* #include "tree_sitter_swift.h", written in the unit (d = 1) or in a header the
\* unit includes (d = 2): the preprocessor enters the header at its first line.
IncludeHeader(d) ==
  /\ tu \in TUs
  /\ pc = 0
  /\ incl < MaxIncludes
  /\ incl' = incl + 1
  /\ depth' = d
  /\ pc' = 1
  /\ out' = Append(out, <<>>)
  /\ UNCHANGED <<lang, tu, macros, conds, diag, objs, linked>>
  /\ UNCHANGED runVars

\* A comment or an empty line contributes nothing.
PPSkipLine ==
  /\ AtLine("comment") \/ AtLine("blank")
  /\ Advance
  /\ UNCHANGED <<lang, tu, macros, incl, depth, conds, out, diag, objs, linked>>
  /\ UNCHANGED runVars

PPIfndef ==
  /\ AtLine("ifndef")
  /\ conds' = Append(conds, Active /\ Header[pc].arg \notin macros)
  /\ Advance
  /\ UNCHANGED <<lang, tu, macros, incl, depth, out, diag, objs, linked>>
  /\ UNCHANGED runVars

PPIfdef ==
  /\ AtLine("ifdef")
  /\ conds' = Append(conds, Active /\ Header[pc].arg \in macros)
  /\ Advance
  /\ UNCHANGED <<lang, tu, macros, incl, depth, out, diag, objs, linked>>
  /\ UNCHANGED runVars

PPDefine ==
  /\ AtLine("define")
  /\ macros' = IF Active THEN macros \cup {Header[pc].arg} ELSE macros
  /\ Advance
  /\ UNCHANGED <<lang, tu, incl, depth, conds, out, diag, objs, linked>>
  /\ UNCHANGED runVars

PPEndif ==
  /\ AtLine("endif")
  /\ IF Len(conds) > 0
       THEN conds' = SubSeq(conds, 1, Len(conds) - 1) /\ diag' = diag
       ELSE conds' = conds /\ diag' = diag \cup {"endif_without_if"}
  /\ Advance
  /\ UNCHANGED <<lang, tu, macros, incl, depth, out, objs, linked>>
  /\ UNCHANGED runVars

PPText ==
  /\ AtLine("text")
  /\ out' = IF Active
              THEN [out EXCEPT ![incl] = Append(@, Header[pc].arg)]
              ELSE out
  /\ Advance
  /\ UNCHANGED <<lang, tu, macros, incl, depth, conds, diag, objs, linked>>
  /\ UNCHANGED runVars

\* End of the header: the preprocessor returns to the including file.  A
\* conditional group still open there is an error.
PPEndOfFile ==
  /\ tu \in TUs
  /\ pc = Len(Header) + 1
  /\ pc' = 0
  /\ depth' = 0
  /\ conds' = <<>>
  /\ diag' = IF Len(conds) > 0 THEN diag \cup {"unterminated_if"} ELSE diag
  /\ UNCHANGED <<lang, tu, macros, incl, out, objs, linked>>
  /\ UNCHANGED runVars

\* --------------------------------------------------------------- compiler
RECURSIVE Flatten(_)
Flatten(ss) == IF ss = <<>> THEN <<>> ELSE Head(ss) \o Flatten(Tail(ss))

DefaultLinkage(l) == IF l = "CPP" THEN "C++" ELSE "C"

ScanStart == [stack |-> <<>>, linkage |-> "none", typedefs |-> 0, errors |-> {}]

\* One declaration of the unit's token stream, in a unit compiled as l.
ScanToken(l, st, tok) ==
  CASE tok = TokOpen ->
         IF l = "CPP"
           THEN [st EXCEPT !.stack = Append(@, "C")]
           ELSE [st EXCEPT !.errors = @ \cup {"syntax"}]
    [] tok = TokClose ->
         IF Len(st.stack) > 0
           THEN [st EXCEPT !.stack = SubSeq(@, 1, Len(@) - 1)]
           ELSE [st EXCEPT !.errors = @ \cup {"unbalanced"}]
    [] tok = TokTypedef ->
         \* C before C11 rejects a typedef name declared twice in one scope.
         [st EXCEPT !.typedefs = @ + 1,
                    !.errors = IF l = "C" /\ st.typedefs > 0
                                 THEN @ \cup {"redefinition"} ELSE @]
    [] tok = TokDecl ->
         LET lk == IF Len(st.stack) > 0
                     THEN st.stack[Len(st.stack)]
                     ELSE DefaultLinkage(l)
         IN  IF st.linkage \in {"none", lk}
               THEN [st EXCEPT !.linkage = lk]
               ELSE [st EXCEPT !.errors = @ \cup {"linkage"}]
    [] OTHER -> st

RECURSIVE Scan(_, _, _)
Scan(l, st, toks) ==
  IF toks = <<>>
    THEN IF Len(st.stack) > 0
           THEN [st EXCEPT !.errors = @ \cup {"unbalanced"}]
           ELSE st
    ELSE Scan(l, ScanToken(l, st, Head(toks)), Tail(toks))

\* The name the object file carries for a function: the identifier itself under
\* C linkage, the Itanium mangling _Z <length> <identifier> v under C++ linkage.
SymbolName(name, lk) ==
  IF lk = "C" THEN <<name>> ELSE <<"_Z", 17, name, "v">>

\* The object file of a unit compiled as l from the declarations toks.  A unit that
\* saw no declaration of the function gives it the language's default linkage.
Translate(l, toks) ==
  LET st == Scan(l, ScanStart, toks)
      lk == IF st.linkage = "none" THEN DefaultLinkage(l) ELSE st.linkage
  IN  [errors |-> st.errors, linkage |-> lk, symbol |-> SymbolName(FnName, lk)]

\* The unit is compiled once its inclusions are done.  The caller needs the
\* declaration; so does a C++ definition, whose linkage comes from it.
Compile ==
  /\ tu \in TUs
  /\ pc = 0
  /\ incl >= 1 \/ (tu = 2 /\ lang[2] = "C")
  /\ objs' = [objs EXCEPT ![tu] =
                [Translate(lang[tu], Flatten(out)) EXCEPT !.errors = @ \cup diag]]
  /\ tu' = tu + 1
  /\ macros' = IF tu + 1 \in TUs THEN PredefinedMacros(lang[tu + 1]) ELSE {}
  /\ incl' = 0
  /\ out' = <<>>
  /\ diag' = {}
  /\ UNCHANGED <<lang, depth, pc, conds, linked>>
  /\ UNCHANGED runVars

\* The linker resolves the caller's reference against the definition.
Link ==
  /\ tu = 3
  /\ linked = "pending"
  /\ linked' = IF /\ objs[1].errors = {}
                  /\ objs[2].errors = {}
                  /\ objs[1].symbol = objs[2].symbol
                 THEN "ok" ELSE "failed"
  /\ UNCHANGED <<lang, tu, macros, incl, depth, pc, conds, out, diag, objs>>
  /\ UNCHANGED runVars

BuildNext ==
  \/ \E d \in {1, 2} : IncludeHeader(d)
  \/ PPSkipLine
  \/ PPIfndef
  \/ PPIfdef
  \/ PPDefine
  \/ PPEndif
  \/ PPText
  \/ PPEndOfFile
  \/ Compile
  \/ Link

\* ------------------------------------------------------------- the program
\* The program is loaded with the language description in static storage,
\* built before any call runs ...
LoadStatic ==
  /\ tu = 3
  /\ linked = "ok"
  /\ mode = "unloaded"
  /\ mode' = "static"
  /\ once' = "done"
  /\ filled' = NumFields
  /\ initRuns' = 1
  /\ UNCHANGED <<addr, live, held, tpc, ret, calls, returned>>
  /\ UNCHANGED buildVars

\* ... or left to be built by the first call.
LoadLazy ==
  /\ tu = 3
  /\ linked = "ok"
  /\ mode = "unloaded"
  /\ mode' = "lazy"
  /\ UNCHANGED <<once, filled, addr, live, initRuns, held, tpc, ret, calls, returned>>
  /\ UNCHANGED buildVars

\* const TSLanguage *l = tree_sitter_swift();   thread t enters the function.
Call(t) ==
  /\ mode \in {"static", "lazy"}
  /\ tpc[t] = "idle"
  /\ calls[t] < MaxCalls
  /\ tpc' = [tpc EXCEPT ![t] = "check"]
  /\ UNCHANGED <<mode, once, filled, addr, live, initRuns, held, ret, calls, returned>>
  /\ UNCHANGED buildVars

\* Variants of Branch: one that takes a structure being built for one nobody
\* has begun to build, one that never looks whether it is built already.
BranchRacy(o)   == IF o = "done" THEN "ret" ELSE "init"
BranchRebuild(o) == IF o = "busy" THEN "wait" ELSE "init"

\* Where a caller goes on the value it read from the initialisation flag: it
\* returns when the structure is built, builds it when nobody has begun to, and
\* waits for the builder otherwise.
Branch(o) ==
  CASE o = "done"   -> "ret"
    [] o = "uninit" -> "init"
    [] o = "busy"   -> "wait"

\* One atomic read-and-claim of the flag.
Check(t) ==
  /\ tpc[t] = "check"
  /\ tpc' = [tpc EXCEPT ![t] = Branch(once)]
  /\ once' = IF Branch(once) = "init" THEN "busy" ELSE once
  /\ UNCHANGED <<mode, filled, addr, live, initRuns, held, ret, calls, returned>>
  /\ UNCHANGED buildVars

\* The builder writes the structure's fields one by one.
InitField(t) ==
  /\ tpc[t] = "init"
  /\ filled < NumFields
  /\ filled' = filled + 1
  /\ UNCHANGED <<mode, once, addr, live, initRuns, held, tpc, ret, calls, returned>>
  /\ UNCHANGED buildVars

\* Variant of Publish that returns without setting the flag.
PublishNoFlag(t) ==
  /\ tpc[t] = "init"
  /\ filled >= NumFields
  /\ initRuns' = initRuns + 1
  /\ tpc' = [tpc EXCEPT ![t] = "ret"]
  /\ UNCHANGED <<mode, once, filled, addr, live, held, ret, calls, returned>>
  /\ UNCHANGED buildVars

\* With every field written the builder publishes the structure.
Publish(t) ==
  /\ tpc[t] = "init"
  /\ filled >= NumFields
  /\ once' = "done"
  /\ initRuns' = initRuns + 1
  /\ tpc' = [tpc EXCEPT ![t] = "ret"]
  /\ UNCHANGED <<mode, filled, addr, live, held, ret, calls, returned>>
  /\ UNCHANGED buildVars

\* A caller that found the structure being built goes on once it is published.
AwaitDone(t) ==
  /\ tpc[t] = "wait"
  /\ once = "done"
  /\ tpc' = [tpc EXCEPT ![t] = "ret"]
  /\ UNCHANGED <<mode, once, filled, addr, live, initRuns, held, ret, calls, returned>>
  /\ UNCHANGED buildVars

\* Variants of LanguageRef: a copy made per call, and a pointer variable read
\* before the first call has set it.
FreshCopyRef(t)     == addr + calls[t] + 1
FirstCallNullRef(t) == IF returned = {} THEN NULL ELSE addr

\* The value of the call: the address of the one structure.
LanguageRef(t) == addr

\* Variant of Return that releases the structure's storage.
ReturnAndRelease(t) ==
  /\ tpc[t] = "ret"
  /\ ret' = [ret EXCEPT ![t] = addr]
  /\ returned' = returned \cup {addr}
  /\ calls' = [calls EXCEPT ![t] = @ + 1]
  /\ tpc' = [tpc EXCEPT ![t] = "idle"]
  /\ live' = FALSE
  /\ UNCHANGED <<mode, once, filled, addr, initRuns, held>>
  /\ UNCHANGED buildVars

Return(t) ==
  /\ tpc[t] = "ret"
  /\ ret' = [ret EXCEPT ![t] = LanguageRef(t)]
  /\ returned' = returned \cup {LanguageRef(t)}
  /\ calls' = [calls EXCEPT ![t] = @ + 1]
  /\ tpc' = [tpc EXCEPT ![t] = "idle"]
  /\ UNCHANGED <<mode, once, filled, addr, live, initRuns, held>>
  /\ UNCHANGED buildVars

\* The steps of a call in progress.
ThreadStep(t) ==
  \/ Check(t)
  \/ InitField(t)
  \/ Publish(t)
  \/ AwaitDone(t)
  \/ Return(t)

RunNext ==
  \/ LoadStatic
  \/ LoadLazy
  \/ \E t \in Threads : Call(t)
  \/ \E t \in Threads : ThreadStep(t)

Next == BuildNext \/ RunNext

Spec == Init /\ [][Next]_vars

\* Every thread in a call is scheduled again and again.
FairSpec == Spec /\ \A t \in Threads : WF_vars(ThreadStep(t))

\* ================================================================ claims
Count(seq, x) == Cardinality({i \in 1..Len(seq) : seq[i] = x})

\* Inclusion i of the unit being translated has been processed to its end.
Completed(i) == i < incl \/ pc = 0

\* C7: including the header any number of times in one unit, directly or through
\* another header, is idempotent: the first inclusion defines TREE_SITTER_SWIFT_H_
\* and contributes the typedef and the declaration once each, every later
\* inclusion contributes nothing, and the unit compiles without a redefinition.
IncludeGuardIdempotent ==
  /\ \A i \in 1..Len(out) :
       /\ (i = 1 /\ Completed(1)) =>
            /\ GuardMacro \in macros
            /\ Count(out[1], TokTypedef) = 1
            /\ Count(out[1], TokDecl) = 1
       /\ i >= 2 => out[i] = <<>>
  /\ (incl >= 1 /\ pc = 0) =>
       "redefinition" \notin Translate(lang[tu], Flatten(out)).errors

\* A second inclusion, reached through another header, processed to its end in a
\* C unit (where a second typedef would be an error).
IncludedTwiceWitness ==
  /\ incl = 2
  /\ depth = 2
  /\ pc = Len(Header) + 1
  /\ tu = 1
  /\ lang[1] = "C"

\* C8: in C and in C++ the header declares tree_sitter_swift with C linkage under
\* the unmangled name, so every unit's object carries the symbol tree_sitter_swift
\* and a caller in one language links against a definition in the other.
CLinkageSymbol ==
  /\ (tu \in TUs /\ pc = 0 /\ incl >= 1) =>
       LET o == Translate(lang[tu], Flatten(out))
       IN  o.errors = {} /\ o.linkage = "C" /\ o.symbol = <<FnName>>
  /\ \A k \in TUs : tu > k =>
       objs[k].errors = {} /\ objs[k].linkage = "C" /\ objs[k].symbol = <<FnName>>
  /\ linked # "failed"

\* A C++ caller linked against a C definition.
CrossLanguageLinkWitness ==
  /\ linked = "ok"
  /\ lang[1] = "CPP"
  /\ lang[2] = "C"

\* C9: the linkage block is balanced in every configuration: every processed
\* inclusion emitted as many opening lines as closing braces; a C++ unit gets
\* both, around the typedef and the declaration, and a C unit gets neither.
LinkageBlockBalanced ==
  \A i \in 1..Len(out) : Completed(i) =>
    /\ Count(out[i], TokOpen) = Count(out[i], TokClose)
    /\ i = 1 => out[1] = IF lang[tu] = "CPP"
                           THEN <<TokOpen, TokTypedef, TokDecl, TokClose>>
                           ELSE <<TokTypedef, TokDecl>>

\* A C++ unit whose first inclusion is processed and emitted the block.
BalancedBlockWitness ==
  /\ tu = 2
  /\ lang[2] = "CPP"
  /\ incl = 1
  /\ pc = 0
  /\ Count(out[1], TokOpen) = 1

====
